---- MODULE Spec2Model ----
(***************************************************************************)
(* DateValidationDirective: the incremental date-text parser of            *)
(* src/src/app/directives/date-validation.directive copy.ts.               *)
(*                                                                         *)
(* A JavaScript string is a sequence of one-character strings.  Number()   *)
(* of a string is its decimal value, 0 for the empty string and NaN for a  *)
(* string that holds anything but digits; every comparison with NaN is     *)
(* false, as in JavaScript.                                                *)
(***************************************************************************)
EXTENDS Integers, Sequences, FiniteSets, TLC

VARIABLES
    dateFormat,  \* @Input dateFormat: "mm/dd/yyyy" or "dd/mm/yyyy"
    startYear,   \* @Input startYear
    endYear,     \* @Input endYear
    day,         \* this.day
    month,       \* this.month
    year,        \* this.year
    date,        \* this.date, the committed 'day/month/year'
    elValue,     \* the 'value' property of the input element (the display)
    timer,       \* the 500 ms timeout of ngOnInit is still pending
    op,          \* the handler that ran last
    raw,         \* the value handed to the last updateDate
    errorDiv,    \* this.errorDiv of the error-message variant
    page,        \* the error elements appended to the parent element
    errTimers,   \* the pending 600 ms timeouts of showErrorMessage
    nextDiv,     \* the element the next createElement('div') returns
    variant      \* display and fields of a variant instance run side by side

errVars == <<errorDiv, page, errTimers, nextDiv>>

vars == <<dateFormat, startYear, endYear, day, month, year, date, elValue,
          timer, op, raw, errorDiv, page, errTimers, nextDiv, variant>>

-----------------------------------------------------------------------------
(* Bounds of the exploration *)

\* longest raw text handed to the directive
MaxRawLen == 12

\* the error elements one session creates
MaxDivs == 5

-----------------------------------------------------------------------------
(* JavaScript strings and numbers *)

Digits == {"0", "1", "2", "3", "4", "5", "6", "7", "8", "9"}

NaN == -1

DigitVal(c) ==
    CASE c = "0" -> 0 [] c = "1" -> 1 [] c = "2" -> 2 [] c = "3" -> 3
      [] c = "4" -> 4 [] c = "5" -> 5 [] c = "6" -> 6 [] c = "7" -> 7
      [] c = "8" -> 8 [] c = "9" -> 9

Min(a, b) == IF a < b THEN a ELSE b

\* String.prototype.slice(a, b) / substring(a, b) for 0 <= a
Slice(s, a, b) ==
    LET e == Min(b, Len(s))
    IN  IF a >= e THEN <<>> ELSE SubSeq(s, a + 1, e)

\* String.prototype.slice(a)
SliceFrom(s, a) == Slice(s, a, Len(s))

IsDigits(s) == \A i \in 1..Len(s) : s[i] \in Digits

RECURSIVE DecVal(_)
DecVal(s) ==
    IF s = <<>> THEN 0
    ELSE 10 * DecVal(SubSeq(s, 1, Len(s) - 1)) + DigitVal(s[Len(s)])

\* Number(s) for a string of digits and slashes
Number(s) == IF IsDigits(s) THEN DecVal(s) ELSE NaN

\* a > b and a < b on numbers, false when either side is NaN
Gt(a, b) == a # NaN /\ b # NaN /\ a > b
Lt(a, b) == a # NaN /\ b # NaN /\ a < b

\* input.replace(/^0+/, r): the leading run of zeros replaced by r
RECURSIVE StripZeros(_)
StripZeros(s) ==
    IF s # <<>> /\ s[1] = "0" THEN StripZeros(Tail(s)) ELSE s

\* no character removed
Sanitize_keepAll(s) == s

\* value.replace(/[^0-9\/]/g, '')
Sanitize(s) == SelectSeq(s, LAMBDA c : c \in Digits \cup {"/"})

\* (value.match(/\//g) || []).length
SlashCount(s) == Len(SelectSeq(s, LAMBDA c : c = "/"))

-----------------------------------------------------------------------------
(* Helpers of the directive *)

MDY == "mm/dd/yyyy"
DMY == "dd/mm/yyyy"

\* findSlashPosition: index of the limit-th slash, 0 when there is none
findSlashPosition(value, limit) ==
    LET hits == {i \in 1..Len(value) :
                    /\ value[i] = "/"
                    /\ SlashCount(SubSeq(value, 1, i)) = limit}
    IN  IF hits = {} THEN 0 ELSE (CHOOSE i \in hits : TRUE) - 1

removeSlashAfterThirdOccurrence(value) ==
    LET position == findSlashPosition(value, 3)
    IN  IF position > 0 THEN Slice(value, 0, position) ELSE value

\* checkSlashPosition without the test of the first character
checkSlashPosition_keepLeading(value) ==
    IF SlashCount(value) > 2 THEN removeSlashAfterThirdOccurrence(value)
    ELSE value

checkSlashPosition(value) ==
    IF value # <<>> /\ value[1] = "/" THEN <<>>
    ELSE IF SlashCount(value) > 2 THEN removeSlashAfterThirdOccurrence(value)
    ELSE value

\* a leap-year test that forgets the century rule
checkIsLeapYear_div4(leapYear) ==
    LET y == Number(leapYear)
    IN  y # NaN /\ y % 4 = 0

checkIsLeapYear(leapYear) ==
    LET y == Number(leapYear)
    IN  y # NaN /\ ((y % 4 = 0 /\ y % 100 # 0) \/ y % 400 = 0)

\* getNoOfDays without its test of an unset month
getNoOfDays_unset29(m) ==
    IF Number(m) \in {1, 3, 5, 7, 8, 10, 12} THEN 31
    ELSE IF Number(m) \in {4, 6, 9, 11} THEN 30
    ELSE 29

\* getNoOfDays with 30 days for every month it lists
getNoOfDays_thirty(m) ==
    IF m = <<>> THEN 31
    ELSE IF Number(m) \in {1, 3, 4, 5, 6, 7, 8, 9, 10, 11, 12} THEN 30
    ELSE 29

getNoOfDays(m) ==
    IF m = <<>> THEN 31
    ELSE IF Number(m) \in {1, 3, 5, 7, 8, 10, 12} THEN 31
    ELSE IF Number(m) \in {4, 6, 9, 11} THEN 30
    ELSE 29

\* removeLeadingZero returning its input
removeLeadingZero_keep(input) == input

\* removeLeadingZero returning "0" for a value of at most 9 with a leading
\* zero
removeLeadingZero_collapse(input) ==
    IF Gt(Number(input), 9) /\ input # <<>> /\ input[1] = "0"
    THEN StripZeros(input)
    ELSE IF input # <<>> /\ input[1] = "0" THEN <<"0">>
    ELSE input

removeLeadingZero(input) ==
    IF Gt(Number(input), 9) /\ input # <<>> /\ input[1] = "0"
    THEN StripZeros(input)
    ELSE IF input # <<>> /\ input[1] = "0" THEN <<"0">> \o StripZeros(input)
    ELSE input

-----------------------------------------------------------------------------
(* The validators.  s is the record [day, month, year] of the fields the   *)
(* directive holds; each validator returns the new text v and the new s.   *)

validateMonthIfBeforeDay(s, value, monthDateDivider) ==
    LET m == IF monthDateDivider = 0 THEN value
             ELSE Slice(value, 0, monthDateDivider)
    IN  IF Gt(Number(m), 12) THEN [v |-> s.month, s |-> s]
        ELSE LET nm == removeLeadingZero(m)
             IN  [v |-> nm \o SliceFrom(value, Len(m)),
                  s |-> [s EXCEPT !.month = nm]]

validateDayIfBeforeMonth(s, value, monthDateDivider) ==
    LET d == IF monthDateDivider = 0 THEN value
             ELSE Slice(value, 0, monthDateDivider)
    IN  IF Gt(Number(d), 31) THEN [v |-> s.day, s |-> s]
        ELSE LET nd == removeLeadingZero(d)
             IN  [v |-> nd \o SliceFrom(value, Len(d)),
                  s |-> [s EXCEPT !.day = nd]]

validateMonthIfAfterDay(s, value, monthDateDivider, dateYearDivider) ==
    LET limit == monthDateDivider + 1
        monthStartIndex == Len(s.day) + 1
        valueBeforeMonthDateDivider == Slice(value, 0, limit)
        m == IF dateYearDivider = 0 THEN SliceFrom(value, limit)
             ELSE Slice(value, limit, dateYearDivider)
    IN  IF s.day = <<"0">> THEN
            [v |-> Slice(value, 0, monthDateDivider), s |-> s]
        ELSE IF m = <<>> THEN
            [v |-> valueBeforeMonthDateDivider, s |-> s]
        ELSE IF Gt(Number(m), 12) \/ Gt(Number(s.day), getNoOfDays(m)) THEN
            [v |-> valueBeforeMonthDateDivider \o s.month, s |-> s]
        ELSE LET nm == removeLeadingZero(m)
             IN  [v |-> Slice(value, 0, monthStartIndex) \o nm
                        \o SliceFrom(value, monthStartIndex + Len(m)),
                  s |-> [s EXCEPT !.month = nm]]

validateDayIfAfterMonth(s, value, monthDateDivider, dateYearDivider) ==
    LET limit == monthDateDivider + 1
        totalDays == getNoOfDays(s.month)
        dayStartIndex == Len(s.month) + 1
        valueBeforeMonthDateDivider == Slice(value, 0, limit)
        d == IF dateYearDivider = 0 THEN SliceFrom(value, limit)
             ELSE Slice(value, limit, dateYearDivider)
    IN  IF s.month = <<"0">> THEN
            [v |-> Slice(value, 0, monthDateDivider), s |-> s]
        ELSE IF d = <<>> THEN
            [v |-> valueBeforeMonthDateDivider, s |-> s]
        ELSE IF Gt(Number(d), totalDays) THEN
            [v |-> valueBeforeMonthDateDivider \o s.day, s |-> s]
        ELSE LET nd == removeLeadingZero(d)
             IN  [v |-> Slice(value, 0, dayStartIndex) \o nd
                        \o SliceFrom(value, dayStartIndex + Len(d)),
                  s |-> [s EXCEPT !.day = nd]]

\* the arrow function firstProcess of rearrangeBasedOnDateFormat
firstProcess(s, value, monthDateDivider) ==
    IF dateFormat = MDY
    THEN validateMonthIfBeforeDay(s, value, monthDateDivider)
    ELSE validateDayIfBeforeMonth(s, value, monthDateDivider)

\* the arrow function secondProcess of rearrangeBasedOnDateFormat
secondProcess(s, value, monthDateDivider, dateYearDivider) ==
    IF dateFormat = MDY
    THEN validateDayIfAfterMonth(s, value, monthDateDivider, dateYearDivider)
    ELSE validateMonthIfAfterDay(s, value, monthDateDivider, dateYearDivider)

rearrangeBasedOnDateFormat(s, value, monthDateDivider, dateYearDivider) ==
    LET r == firstProcess(s, value, monthDateDivider)
    IN  IF monthDateDivider # 0
        THEN secondProcess(r.s, r.v, monthDateDivider, dateYearDivider)
        ELSE r

\* validateYear returning previousValue at its sentinel test
validateYear_revertsOnSentinel(s, value, dateYearDivider) ==
    LET y == IF dateYearDivider # 0 THEN SliceFrom(value, dateYearDivider + 1)
             ELSE <<>>
        previousValue == Slice(value, 0, dateYearDivider + 1) \o s.year
        yearInNumber == Number(y)
    IN  IF s.day = <<"0">> \/ s.month = <<"0">> THEN
            [v |-> previousValue, s |-> s]
        ELSE IF y # <<>> /\ (\/ y[1] = "0"
                             \/ (Len(y) >= 4 /\ Lt(yearInNumber, startYear))
                             \/ Gt(yearInNumber, endYear)) THEN
            [v |-> previousValue, s |-> s]
        ELSE IF /\ y # <<>>
                /\ s.month \in {<<"2">>, <<"0", "2">>}
                /\ s.day = <<"2", "9">>
                /\ Len(y) = 4
                /\ ~checkIsLeapYear(y) THEN
            [v |-> Slice(value, 0, Len(value) - 1), s |-> s]
        ELSE [v |-> value, s |-> [s EXCEPT !.year = y]]

validateYear(s, value, dateYearDivider) ==
    LET y == IF dateYearDivider # 0 THEN SliceFrom(value, dateYearDivider + 1)
             ELSE <<>>
        previousValue == Slice(value, 0, dateYearDivider + 1) \o s.year
        yearInNumber == Number(y)
    IN  IF s.day = <<"0">> \/ s.month = <<"0">> THEN
            [v |-> Slice(value, 0, dateYearDivider), s |-> s]
        ELSE IF y # <<>> /\ (\/ y[1] = "0"
                             \/ (Len(y) >= 4 /\ Lt(yearInNumber, startYear))
                             \/ Gt(yearInNumber, endYear)) THEN
            [v |-> previousValue, s |-> s]
        ELSE IF /\ y # <<>>
                /\ s.month \in {<<"2">>, <<"0", "2">>}
                /\ s.day = <<"2", "9">>
                /\ Len(y) = 4
                /\ ~checkIsLeapYear(y) THEN
            [v |-> Slice(value, 0, Len(value) - 1), s |-> s]
        ELSE [v |-> value, s |-> [s EXCEPT !.year = y]]

\* clearSpecificPartOfDateIfEmpty without its last statement: the year is
\* kept when there is no second separator
clearSpecificPartOfDateIfEmpty_keepYear(s, monthDateDivider, dateYearDivider) ==
    IF dateFormat = DMY
    THEN [s EXCEPT !.month = IF monthDateDivider = 0 THEN <<>> ELSE @]
    ELSE [s EXCEPT !.day = IF monthDateDivider = 0 THEN <<>> ELSE @]

\* clearSpecificPartOfDateIfEmpty without its first statement: day and
\* month are kept when there is no first separator
clearSpecificPartOfDateIfEmpty_keepSecond(s, monthDateDivider, dateYearDivider) ==
    [s EXCEPT !.year = IF dateYearDivider = 0 THEN <<>> ELSE @]

clearSpecificPartOfDateIfEmpty(s, monthDateDivider, dateYearDivider) ==
    LET s1 == IF dateFormat = DMY
              THEN [s EXCEPT !.month = IF monthDateDivider = 0 THEN <<>> ELSE @]
              ELSE [s EXCEPT !.day = IF monthDateDivider = 0 THEN <<>> ELSE @]
    IN  [s1 EXCEPT !.year = IF dateYearDivider = 0 THEN <<>> ELSE @]

\* restrictInput without the final substring(0, 10)
restrictInput_noTruncate(s, value) ==
    LET monthDateDivider == findSlashPosition(value, 1)
        DateYearDivider == findSlashPosition(value, 2)
        r1 == rearrangeBasedOnDateFormat(s, Sanitize(checkSlashPosition(value)),
                                         monthDateDivider, DateYearDivider)
        r2 == IF DateYearDivider # 0
              THEN validateYear(r1.s, r1.v, DateYearDivider) ELSE r1
    IN  [v |-> r2.v,
         s |-> clearSpecificPartOfDateIfEmpty(r2.s, monthDateDivider,
                                              DateYearDivider)]

\* restrictInput returning undefined instead of a string
restrictInput_noString(s, value) == [v |-> <<"undefined">>, s |-> s]

restrictInput(s, value) ==
    LET monthDateDivider == findSlashPosition(value, 1)
        DateYearDivider == findSlashPosition(value, 2)
        r1 == rearrangeBasedOnDateFormat(s, Sanitize(checkSlashPosition(value)),
                                         monthDateDivider, DateYearDivider)
        r2 == IF DateYearDivider # 0
              THEN validateYear(r1.s, r1.v, DateYearDivider) ELSE r1
    IN  [v |-> Slice(r2.v, 0, 10),
         s |-> clearSpecificPartOfDateIfEmpty(r2.s, monthDateDivider,
                                              DateYearDivider)]

\* the condition under which clearDateIfNotValid clears the display
dateNotValid(s) ==
    \/ s.day = <<>>
    \/ s.month = <<>>
    \/ Lt(Number(s.year), startYear)
    \/ Gt(Number(s.year), endYear)

\* clearDateIfNotValid committing month/day/year instead of day/month/year
clearDateIfNotValid_monthFirst(s, v, d) ==
    IF dateNotValid(s) THEN [v |-> <<>>, date |-> d]
    ELSE [v |-> v, date |-> s.month \o <<"/">> \o s.day \o <<"/">> \o s.year]

\* clearDateIfNotValid on fields s, display v and committed date d
clearDateIfNotValid(s, v, d) ==
    IF dateNotValid(s) THEN [v |-> <<>>, date |-> d]
    ELSE [v |-> v, date |-> s.day \o <<"/">> \o s.month \o <<"/">> \o s.year]

-----------------------------------------------------------------------------
(* Inputs *)

\* texts typed one character at a time, per date format
TypedTargets ==
    IF dateFormat = MDY
    THEN { <<"1", "3", "/">> }
    ELSE { <<"3", "2", "/">> }

\* texts that arrive whole (pasted, or pushed by the model binding), per
\* date format
Pasted ==
    (IF dateFormat = MDY
     THEN { <<"0", "3", "/", "1", "5", "/", "2", "0", "2", "4">>,
         <<"0", "2", "/", "2", "8", "/", "2", "0", "1", "9">>,
         <<"0", "2", "/", "2", "9", "/", "2", "0", "1", "9">>,
         <<"1", "/", "0", "/", "2", "0", "2", "0">>,
         <<"0", "1", "/">> }
     ELSE { <<"1", "5", "/", "0", "3", "/", "2", "0", "2", "4">>,
         <<"2", "8", "/", "0", "2", "/", "2", "0", "1", "9">>,
         <<"2", "9", "/", "0", "2", "/", "2", "0", "1", "9">>,
         <<"0", "/", "1", "/", "2", "0", "2", "0">>,
         <<"0", "1", "/">> })
    \cup { <<"0", "0", "1", "/", "1", "1", "1", "1", "1", "1", "1", "/">>,
        <<"1", "/", "9", "9", "/", "3">> }

\* every text reached while typing a target of set T, up to MaxRawLen
\* characters
Prefixes(T) ==
    UNION {{SubSeq(t, 1, n) : n \in 0..Min(Len(t), MaxRawLen)} : t \in T}

\* the texts of R one keystroke away from the displayed text v: a character
\* appended, the last character deleted, or the whole text replaced by one
\* character or by nothing
Typed(R, v) ==
    {r \in R : \/ Len(r) <= 1
               \/ Len(r) = Len(v) + 1 /\ SubSeq(r, 1, Len(v)) = v
               \/ Len(v) = Len(r) + 1 /\ SubSeq(v, 1, Len(r)) = r}

\* the texts an input event can carry when the display shows v: v itself, v
\* after a keystroke, or a pasted text
Inputs(v) ==
    {r \in {v} \cup Typed(Prefixes(TypedTargets), v) \cup Pasted :
        Len(r) <= MaxRawLen}

\* further texts, explored in sessions of input events alone
WideTypedTargets ==
    IF dateFormat = MDY
    THEN { <<"0", "2", "/", "2", "9", "/", "2", "0", "2", "0">>,
        <<"0", "1", "/", "0", "1", "/", "1", "9", "9", "9">>,
        <<"2", "/", "2", "9", "/", "2", "0", "2", "0">> }
    ELSE { <<"2", "9", "/", "0", "2", "/", "2", "0", "2", "0">>,
        <<"3", "1", "/", "1", "2", "/", "2", "0", "2", "0">>,
        <<"3", "1", "/", "0", "4", "/", "2", "0", "2", "0">>,
        <<"3", "1", "/", "0", "1", "/", "2", "0", "2", "4">> }

WidePasted ==
    (IF dateFormat = MDY
     THEN { <<"2", "/", "2", "9", "/", "1", "9", "0", "0">>,
         <<"0", "2", "/", "3", "1">>,
         <<"0", "4", "/", "3", "1", "/", "2", "0", "2", "0">>,
         <<"1", "2", "/", "3", "1", "/", "2", "0", "3", "1">>,
         <<"1", "/", "0", "/", "1", "9", "9", "9">>,
         <<"1", "/", "1", "/", "0", "1">>,
         <<"1", "a", "3", "/">>,
         <<"0", "2", "/", "3", "a", "1", "/">> }
     ELSE { <<"2", "9", "/", "2", "/", "1", "9", "0", "0">>,
         <<"1", "5", "/", "1", "a", "3", "/">>,
         <<"1", "5", "/", "1", "3", "/", "2", "0", "2", "0">>,
         <<"3", "1", "/", "0", "2">>,
         <<"3", "1", "/", "1", "2", "/", "2", "0", "3", "1">>,
         <<"0", "/", "1", "/", "1", "9", "9", "9">>,
         <<"1", "/", "1", "/", "0", "1">> })
    \cup { <<"0", "0", "/">>,
        <<"0", "1", "/", "0", "1", "/", "1", "2", "3", "4", "5">>,
        <<"/", "1", "/", "2", "0", "2", "0">>,
        <<"1", "/", "2", "/", "3", "/", "4">>,
        <<"0", "0", "2", "/", "1", "5", "/">>,
        <<"1", "a", "/", "1", "/", "2", "0", "2", "0">>,
        <<"1", "/", "1", "a", "/", "1", "9", "9", "9">>,
        <<"1", "/", "1", "a", "/", "1", "9">>,
        <<"a", "/", "1">> }

WideInputs(v) ==
    {r \in Typed(Prefixes(WideTypedTargets), v) \cup WidePasted :
        Len(r) <= MaxRawLen}

\* the year ranges the directive is configured with
YearRanges == {<<1000, 9999>>, <<2000, 2030>>}

-----------------------------------------------------------------------------
(* The directive as a state machine *)

fields == [day |-> day, month |-> month, year |-> year]

Init ==
    /\ dateFormat \in {MDY, DMY}
    /\ \E r \in YearRanges : startYear = r[1] /\ endYear = r[2]
    /\ day = <<>>
    /\ month = <<>>
    /\ year = <<>>
    /\ date = <<>>
    /\ elValue = <<>>
    /\ timer = TRUE
    /\ op = "init"
    /\ raw = <<>>
    \* the variant's ngOnInit creates an element that it does not append
    /\ errorDiv = 1
    /\ page = {}
    /\ errTimers = 0
    /\ nextDiv = 2
    /\ variant = [v |-> <<>>, s |-> [day |-> <<>>, month |-> <<>>,
                                     year |-> <<>>]]

\* updateDate(value): the display becomes restrictInput(value)
updateDate(value) ==
    LET r == restrictInput(fields, value)
    IN  /\ day' = r.s.day
        /\ month' = r.s.month
        /\ year' = r.s.year
        /\ elValue' = r.v
        /\ raw' = value
        /\ op' = "updateDate"
        /\ UNCHANGED <<dateFormat, startYear, endYear, date, timer>>
        /\ UNCHANGED <<errVars, variant>>

\* updateDate(value) followed by clearDateIfNotValid()
updateDateAndClear(value) ==
    LET r == restrictInput(fields, value)
        c == clearDateIfNotValid(r.s, r.v, date)
    IN  /\ day' = r.s.day
        /\ month' = r.s.month
        /\ year' = r.s.year
        /\ elValue' = c.v
        /\ date' = c.date
        /\ raw' = value
        /\ op' = "updateDateAndClear"
        /\ UNCHANGED <<dateFormat, startYear, endYear, timer>>
        /\ UNCHANGED <<errVars, variant>>

\* @HostListener('input'): the displayed text after a keystroke or a paste
OnInput == \E value \in Inputs(elValue) : updateDate(value)

\* the valueChanges subscription of ngOnInit
ValueChanges == \E value \in Pasted : value # <<>> /\ updateDate(value)

\* @HostListener('focus')
OnFocus == updateDateAndClear(elValue)

\* @HostListener('blur')
OnBlur == updateDateAndClear(elValue)

\* the setTimeout callback of ngOnInit
Timeout ==
    /\ timer
    /\ timer' = FALSE
    /\ LET c == clearDateIfNotValid(fields, elValue, date)
       IN  /\ elValue' = c.v
           /\ date' = c.date
    /\ op' = "clear"
    /\ UNCHANGED <<dateFormat, startYear, endYear, day, month, year, raw>>
    /\ UNCHANGED <<errVars, variant>>

Next == OnInput \/ ValueChanges \/ OnFocus \/ OnBlur \/ Timeout

Spec == Init /\ [][Next]_vars

\* @HostListener('input') carrying one of the further texts
OnInputWide == \E value \in WideInputs(elValue) : updateDate(value)

\* sessions of input events alone: any sequence of updateDate calls
NextProcess == OnInput \/ ValueChanges \/ OnInputWide

SpecProcess == Init /\ [][NextProcess]_vars

-----------------------------------------------------------------------------
(* The error-message variant of the directive,                             *)
(* src/DateDirective/src/app/directives/date-validation.directive copy.ts. *)
(* Its validators return, next to the new text v and the new fields s, the *)
(* number n of showErrorMessage calls they made.  findSlashPosition,       *)
(* checkIsLeapYear, clearSpecificPartOfDateIfEmpty and the condition of    *)
(* clearDateIfNotValid have the same text in both files.                   *)

\* @Input isShowError
isShowError == TRUE

\* this.errorDiv = null
NoDiv == 0

\* the error elements as one record
errs == [errorDiv |-> errorDiv, page |-> page, errTimers |-> errTimers,
         nextDiv |-> nextDiv]

\* showErrorMessage(): a new element is appended and becomes this.errorDiv,
\* and a timeout that calls removeErrorMessage is started
showErrorMessage(e) ==
    IF isShowError
    THEN [errorDiv |-> e.nextDiv,
          page |-> e.page \cup {e.nextDiv},
          errTimers |-> e.errTimers + 1,
          nextDiv |-> e.nextDiv + 1]
    ELSE e

\* removeErrorMessage(): the element this.errorDiv refers to is removed
\* from the parent element (nothing happens there when it is not a child)
removeErrorMessage(e) ==
    IF e.errorDiv # NoDiv
    THEN [e EXCEPT !.page = @ \ {e.errorDiv}, !.errorDiv = NoDiv]
    ELSE e

\* n calls of showErrorMessage in a row
RECURSIVE showErrorMessages(_, _)
showErrorMessages(e, n) ==
    IF n = 0 THEN e ELSE showErrorMessages(showErrorMessage(e), n - 1)

\* the test /[^0-9/]/ of restrictInput
HasOtherCharacter(value) ==
    \E i \in 1..Len(value) : value[i] \notin Digits \cup {"/"}

getNoOfDays_E(m) ==
    IF Number(m) = 2 THEN 29
    ELSE IF Number(m) \in {1, 3, 5, 7, 8, 10, 12} THEN 31
    ELSE IF Number(m) \in {4, 6, 9, 11} THEN 30
    ELSE 31

removeLeadingZero_E(input) ==
    IF Gt(Number(input), 9) /\ input # <<>> /\ input[1] = "0"
    THEN [v |-> StripZeros(input), n |-> 0]
    ELSE [v |-> IF input # <<>> /\ input[1] = "0"
                THEN <<"0">> \o StripZeros(input) ELSE input,
          n |-> IF Len(input) >= 2 /\ input[1] = "0" /\ input[2] = "0"
                THEN 1 ELSE 0]

removeSlashAfterThirdOccurrence_E(s, value) ==
    LET position == findSlashPosition(value, 3)
    IN  [v |-> IF position > 0 THEN Slice(value, 0, position) ELSE value,
         n |-> IF s.day # <<>> /\ s.month # <<>> /\ position # 0
               THEN 1 ELSE 0]

checkSlashPosition_E(s, value) ==
    IF value # <<>> /\ value[1] = "/" THEN [v |-> <<>>, n |-> 1]
    ELSE IF SlashCount(value) > 2
    THEN removeSlashAfterThirdOccurrence_E(s, value)
    ELSE [v |-> value, n |-> 0]

validateMonthIfBeforeDay_E(s, value, monthDateDivider) ==
    LET m == IF monthDateDivider = 0 THEN value
             ELSE Slice(value, 0, monthDateDivider)
    IN  IF Gt(Number(m), 12) THEN [v |-> s.month, s |-> s, n |-> 1]
        ELSE LET z == removeLeadingZero_E(m)
             IN  [v |-> z.v \o SliceFrom(value, Len(m)),
                  s |-> [s EXCEPT !.month = z.v],
                  n |-> z.n]

validateMonthIfAfterDay_E(s, value, dateYearDivider) ==
    LET monthDateDivider == findSlashPosition(value, 1)
        limit == monthDateDivider + 1
        monthStartIndex == Len(s.day) + 1
        valueBeforeMonthDateDivider == Slice(value, 0, limit)
        m == IF dateYearDivider = 0 THEN SliceFrom(value, limit)
             ELSE Slice(value, limit, dateYearDivider)
    IN  IF s.day = <<"0">> THEN
            [v |-> Slice(value, 0, monthDateDivider), s |-> s, n |-> 1]
        ELSE IF Len(value) > limit /\ m = <<>> THEN
            [v |-> valueBeforeMonthDateDivider, s |-> s, n |-> 1]
        ELSE IF \/ Gt(Number(m), 12)
                \/ (Gt(Number(s.day), getNoOfDays_E(m)) /\ m # <<"0">>) THEN
            [v |-> valueBeforeMonthDateDivider \o s.month, s |-> s, n |-> 1]
        ELSE LET z == removeLeadingZero_E(m)
             IN  [v |-> Slice(value, 0, monthStartIndex) \o z.v
                        \o SliceFrom(value, monthStartIndex + Len(m)),
                  s |-> [s EXCEPT !.month = z.v],
                  n |-> z.n]

validateDayIfBeforeMonth_E(s, value, monthDateDivider) ==
    LET d == IF monthDateDivider = 0 THEN value
             ELSE Slice(value, 0, monthDateDivider)
    IN  IF Gt(Number(d), 31) THEN [v |-> s.day, s |-> s, n |-> 1]
        ELSE LET z == removeLeadingZero_E(d)
             IN  [v |-> z.v \o SliceFrom(value, Len(d)),
                  s |-> [s EXCEPT !.day = z.v],
                  n |-> z.n]

validateDayIfAfterMonth_E(s, value, dateYearDivider) ==
    LET monthDateDivider == findSlashPosition(value, 1)
        limit == monthDateDivider + 1
        totalDays == getNoOfDays_E(s.month)
        dayStartIndex == Len(s.month) + 1
        valueBeforeMonthDateDivider == Slice(value, 0, limit)
        d == IF dateYearDivider = 0 THEN SliceFrom(value, limit)
             ELSE Slice(value, limit, dateYearDivider)
    IN  IF s.month = <<"0">> THEN
            [v |-> Slice(value, 0, monthDateDivider), s |-> s, n |-> 1]
        ELSE IF Len(value) > limit /\ d = <<>> THEN
            [v |-> valueBeforeMonthDateDivider, s |-> s, n |-> 1]
        ELSE IF Gt(Number(d), totalDays) THEN
            [v |-> valueBeforeMonthDateDivider \o s.day, s |-> s, n |-> 1]
        ELSE LET z == removeLeadingZero_E(d)
             IN  [v |-> Slice(value, 0, dayStartIndex) \o d
                        \o SliceFrom(value, dayStartIndex + Len(d)),
                  s |-> [s EXCEPT !.day = z.v],
                  n |-> z.n]

\* the result r of a step with n further showErrorMessage calls counted
AddErrors(r, n) == [v |-> r.v, s |-> r.s, n |-> r.n + n]

\* the arrow function firstProcess of rearrangeBasedOnDateFormat
firstProcess_E(s, value, monthDateDivider) ==
    IF dateFormat = MDY
    THEN validateMonthIfBeforeDay_E(s, value, monthDateDivider)
    ELSE validateDayIfBeforeMonth_E(s, value, monthDateDivider)

\* the arrow function secondProcess of rearrangeBasedOnDateFormat, applied
\* to the result r of firstProcess
secondProcess_E(r, dateYearDivider) ==
    AddErrors(IF dateFormat = MDY
              THEN validateDayIfAfterMonth_E(r.s, r.v, dateYearDivider)
              ELSE validateMonthIfAfterDay_E(r.s, r.v, dateYearDivider),
              r.n)

rearrangeBasedOnDateFormat_E(s, value, monthDateDivider, dateYearDivider) ==
    IF monthDateDivider # 0
    THEN secondProcess_E(firstProcess_E(s, value, monthDateDivider),
                         dateYearDivider)
    ELSE firstProcess_E(s, value, monthDateDivider)

validateYear_E(s, value, dateYearDivider) ==
    LET y == IF dateYearDivider # 0 THEN SliceFrom(value, dateYearDivider + 1)
             ELSE <<>>
        previousValue == Slice(value, 0, dateYearDivider + 1) \o s.year
        yearInNumber == Number(y)
    IN  IF s.day = <<"0">> \/ s.month = <<"0">> THEN
            [v |-> Slice(value, 0, dateYearDivider), s |-> s, n |-> 1]
        ELSE IF y # <<>> /\ (\/ y[1] = "0"
                             \/ (Len(y) >= 4 /\ Lt(yearInNumber, startYear))
                             \/ Gt(yearInNumber, endYear)) THEN
            [v |-> previousValue, s |-> s, n |-> 1]
        ELSE IF /\ y # <<>>
                /\ s.month \in {<<"2">>, <<"0", "2">>}
                /\ s.day = <<"2", "9">>
                /\ Len(y) = 4
                /\ ~checkIsLeapYear(y) THEN
            [v |-> Slice(value, 0, Len(value) - 1), s |-> s, n |-> 1]
        ELSE [v |-> value, s |-> [s EXCEPT !.year = y], n |-> 0]

\* restrictInput from its call of rearrangeBasedOnDateFormat on: c is the
\* result of checkSlashPosition, n0 the errors reported before it
restrictInputFrom(s, c, monthDateDivider, DateYearDivider, n0) ==
    LET r1 == rearrangeBasedOnDateFormat_E(s, Sanitize(c.v), monthDateDivider,
                                           DateYearDivider)
        r2 == IF DateYearDivider # 0
              THEN AddErrors(validateYear_E(r1.s, r1.v, DateYearDivider), r1.n)
              ELSE r1
    IN  [v |-> Slice(r2.v, 0, 10),
         s |-> clearSpecificPartOfDateIfEmpty(r2.s, monthDateDivider,
                                              DateYearDivider),
         n |-> n0 + c.n + r2.n]

restrictInput_E(s, value) ==
    restrictInputFrom(s, checkSlashPosition_E(s, value),
                      findSlashPosition(value, 1), findSlashPosition(value, 2),
                      IF HasOtherCharacter(value) THEN 1 ELSE 0)

\* clearDateIfNotValid() on fields s, display v, committed date d and error
\* elements e
clearDateIfNotValid_E(s, v, d, e) ==
    IF dateNotValid(s)
    THEN [v |-> <<>>, date |-> d,
          e |-> showErrorMessage(removeErrorMessage(e))]
    ELSE [v |-> v, date |-> s.day \o <<"/">> \o s.month \o <<"/">> \o s.year,
          e |-> e]

\* the texts the input events of the variant carry
ErrorTexts ==
    { <<>>, <<"a">>, <<"/", "a">>, <<"1">>, <<"1", "3">>, <<"0", "0", "1">>,
      <<"0", "0", "a">>, <<"1", "/", "3", "2">>,
      <<"1", "/", "5", "/", "2", "0", "2", "0">>,
      <<"1", "/", "5", "/", "0">> }

\* the fields, the display, the committed date and the error elements
\* that a handler leaves
Leaves(r, v, d, e, value, handler) ==
    /\ e.nextDiv <= MaxDivs + 1
    /\ day' = r.s.day
    /\ month' = r.s.month
    /\ year' = r.s.year
    /\ elValue' = v
    /\ date' = d
    /\ raw' = value
    /\ op' = handler
    /\ errorDiv' = e.errorDiv
    /\ page' = e.page
    /\ errTimers' = e.errTimers
    /\ nextDiv' = e.nextDiv
    /\ UNCHANGED <<dateFormat, startYear, endYear, timer, variant>>

\* the error elements after updateDate: removeErrorMessage(), then one
\* showErrorMessage for each of the n errors restrictInput reports
ErrorsAfterUpdate(n) == showErrorMessages(removeErrorMessage(errs), n)

\* updateDate(value), r being restrictInput(value)
updateDateTo(r, value) ==
    Leaves(r, r.v, date, ErrorsAfterUpdate(r.n), value, "updateDate")

updateDate_E(value) == updateDateTo(restrictInput_E(fields, value), value)

\* @HostListener('input') and @HostListener('focus') of the variant
OnInput_E == \E value \in ErrorTexts \cup {elValue} : updateDate_E(value)

\* the valueChanges subscription of the variant's ngOnInit
ValueChanges_E == \E value \in ErrorTexts : value # <<>> /\ updateDate_E(value)

\* updateDate(value) then clearDateIfNotValid(), r being restrictInput(value)
\* and c the result of clearDateIfNotValid
updateDateAndClearTo(r, c, value) ==
    Leaves(r, c.v, c.date, c.e, value, "updateDateAndClear")

updateDateThenClear(r, value) ==
    updateDateAndClearTo(r,
        clearDateIfNotValid_E(r.s, r.v, date, ErrorsAfterUpdate(r.n)), value)

\* @HostListener('blur') of the variant
OnBlur_E == updateDateThenClear(restrictInput_E(fields, elValue), elValue)

\* the setTimeout callback of showErrorMessage: removeErrorMessage()
ErrorTimeout ==
    /\ errTimers > 0
    /\ LET e == removeErrorMessage(errs)
       IN  /\ errorDiv' = e.errorDiv
           /\ page' = e.page
    /\ errTimers' = errTimers - 1
    /\ op' = "removeErrorMessage"
    /\ UNCHANGED <<dateFormat, startYear, endYear, day, month, year, date,
                   elValue, timer, raw, nextDiv, variant>>

NextError == OnInput_E \/ ValueChanges_E \/ OnBlur_E \/ ErrorTimeout

\* the sessions of the variant; every timeout that was started fires
SpecError == Init /\ [][NextError]_vars /\ WF_vars(ErrorTimeout)

-----------------------------------------------------------------------------
(* What the claims speak about *)

\* every text an input event is explored with when the display shows v
AllInputs(v) == Inputs(v) \cup WideInputs(v)

\* the text process(value) works on after it removed the characters that
\* are neither digits nor separators, and the positions of its separators
Sanitized(value) == Sanitize(checkSlashPosition(value))
Divider1(value) == findSlashPosition(Sanitized(value), 1)
Divider2(value) == findSlashPosition(Sanitized(value), 2)

\* the first-field candidate: the text before the first separator, or the
\* whole text when there is none
FirstCandidate(value) ==
    IF Divider1(value) = 0 THEN Sanitized(value)
    ELSE Slice(Sanitized(value), 0, Divider1(value))

\* the text and the fields handed to the second-field step of process(value)
AfterFirst(value) ==
    firstProcess(fields, Sanitized(value), findSlashPosition(value, 1))

\* the second-field candidate: the text between the separators, or after
\* the first separator when there is no second
SecondCandidate(value) ==
    IF Divider2(value) = 0
    THEN SliceFrom(AfterFirst(value).v, Divider1(value) + 1)
    ELSE Slice(AfterFirst(value).v, Divider1(value) + 1, Divider2(value))

\* the text and the fields handed to the year step of process(value)
Rearranged(value) ==
    rearrangeBasedOnDateFormat(fields, Sanitized(value),
                               findSlashPosition(value, 1),
                               findSlashPosition(value, 2))

\* the year candidate of process(value): the text after the second separator
YearCandidate(value) ==
    SliceFrom(Rearranged(value).v, Divider2(value) + 1)

\* the text handed to the year step, up to and including the second
\* separator
ThroughSecond(value) == Slice(Rearranged(value).v, 0, Divider2(value) + 1)

February == {<<"2">>, <<"0", "2">>}

IsLeap(n) == (n % 4 = 0 /\ n % 100 # 0) \/ n % 400 = 0

InRange(n) == startYear <= n /\ n <= endYear

\* a year candidate of exactly four digits inside [startYear, endYear]
FourDigitsInRange(y) == Len(y) = 4 /\ IsDigits(y) /\ InRange(DecVal(y))

WithoutLast(t) == SubSeq(t, 1, Len(t) - 1)

\* a string of digits whose value exceeds n
Exceeds(t, n) == IsDigits(t) /\ DecVal(t) > n

Sentinel == <<"0">>

\* the day and the month stored when the year step of process(value) starts
\* are not the sentinel
NoSentinel(value) ==
    /\ Rearranged(value).s.day # Sentinel
    /\ Rearranged(value).s.month # Sentinel

\* the first field a text shows: the text before its first separator
ShownFirst(t) ==
    IF SlashCount(t) = 0 THEN t ELSE Slice(t, 0, findSlashPosition(t, 1))

\* texts of the examples
T_02_29_2019 == <<"0", "2", "/", "2", "9", "/", "2", "0", "1", "9">>
T_02_29_2020 == <<"0", "2", "/", "2", "9", "/", "2", "0", "2", "0">>
T_02_29_201 == <<"0", "2", "/", "2", "9", "/", "2", "0", "1">>

InitialFields == day = <<>> /\ month = <<>> /\ year = <<>>

-----------------------------------------------------------------------------
\* C1: for every reachable state and every raw input, feeding the display
\* returned by process(raw) back into process returns that same display.
C1_Idempotent ==
    op = "updateDate" => restrictInput(fields, elValue).v = elValue

\* C2: in no reachable state is the stored day "29", the stored month
\* February and the stored year a four-digit year that is not a leap year.
C2_NoFeb29InCommonYear ==
    ~(/\ day = <<"2", "9">>
      /\ month \in February
      /\ Len(year) = 4
      /\ IsDigits(year)
      /\ ~IsLeap(DecVal(year)))

\* C3: when the stored day is "29", the stored month is February and the
\* year candidate has exactly four digits in range, process rejects a
\* non-leap year by returning the text without its last character and
\* leaving the stored year unchanged, and accepts a leap year by returning
\* the text unchanged and storing the year; in MDY from the initial state
\* "02/29/2019" gives "02/29/201" and "02/29/2020" gives "02/29/2020".
C3_LeapYearStep ==
    /\ \A value \in AllInputs(elValue) :
        LET r1 == Rearranged(value)
            y == YearCandidate(value)
            r == restrictInput(fields, value)
        IN  (/\ Divider2(value) # 0
             /\ r1.s.day = <<"2", "9">>
             /\ r1.s.month \in February
             /\ FourDigitsInRange(y))
            => IF IsLeap(DecVal(y))
               THEN r.v = r1.v /\ r.s.year = y
               ELSE r.v = WithoutLast(r1.v) /\ r.s.year = year
    /\ (dateFormat = MDY /\ InitialFields)
        => /\ restrictInput(fields, T_02_29_2019).v = T_02_29_201
           /\ restrictInput(fields, T_02_29_2020).v = T_02_29_2020
           /\ restrictInput(fields, T_02_29_2020).s.year = <<"2", "0", "2", "0">>

\* C3 happens: a non-leap year was rejected after February 29 was stored
C3_Witness ==
    /\ op = "updateDate"
    /\ raw = T_02_29_2019
    /\ elValue = T_02_29_201
    /\ day = <<"2", "9">>
    /\ month = <<"0", "2">>
    /\ year = <<"2", "0", "1">>

\* C4: the stored year has at most four characters, and whenever it has
\* four its numeric value lies in [startYear, endYear].
C4_YearBounded ==
    /\ Len(year) <= 4
    /\ Len(year) = 4 => IsDigits(year) /\ InRange(DecVal(year))

\* the year candidate of process(value) has four or more digits and a
\* value outside [startYear, endYear]
YearOutOfRange(value) ==
    /\ Divider2(value) # 0
    /\ Len(YearCandidate(value)) >= 4
    /\ IsDigits(YearCandidate(value))
    /\ ~InRange(DecVal(YearCandidate(value)))

\* C5: when the year candidate (the text after the second separator) has
\* four or more digits and a value outside [startYear, endYear], process
\* leaves the stored year unchanged and returns the text up to and
\* including the second separator followed by the previously stored year.
\* (Stated for calls whose stored day and month are not the sentinel "0".)
C5_RangeStep ==
    [][(op' = "updateDate" /\ YearOutOfRange(raw') /\ NoSentinel(raw'))
        => /\ year' = year
           /\ elValue' = ThroughSecond(raw') \o year]_vars

\* C6: with the stored day and month different from "0", a year candidate
\* of one to three digits whose first digit is not 0 is accepted (stored as
\* year, text returned unchanged) without any range check, and a year
\* candidate whose first digit is 0 is rejected, the stored year unchanged.
C6_PartialYear ==
    [][(/\ op' = "updateDate"
        /\ Divider2(raw') # 0
        /\ NoSentinel(raw')
        /\ YearCandidate(raw') # <<>>)
        => /\ (/\ Len(YearCandidate(raw')) <= 3
               /\ IsDigits(YearCandidate(raw'))
               /\ YearCandidate(raw')[1] # "0")
                => /\ year' = YearCandidate(raw')
                   /\ elValue' = Rearranged(raw').v
           /\ YearCandidate(raw')[1] = "0" => year' = year]_vars

\* C7: when the first-field candidate (the text before the first
\* separator, or the whole text when there is none) exceeds its maximum (12
\* for the month in MDY, 31 for the day in DMY), process leaves that stored
\* field unchanged and the first field shown in the display is the
\* previously accepted value.
C7_FirstFieldBound ==
    [][(/\ op' = "updateDate"
        /\ Exceeds(FirstCandidate(raw'),
                   IF dateFormat = MDY THEN 12 ELSE 31))
        => IF dateFormat = MDY
           THEN month' = month /\ ShownFirst(elValue') = month
           ELSE day' = day /\ ShownFirst(elValue') = day]_vars

\* C8: in MDY, when a first separator is present and the day candidate
\* exceeds the number of days of the month stored by the same call, the
\* stored day is unchanged and the display is the month, the separator and
\* the previously accepted day.  (Stated for calls whose stored month is
\* not the sentinel "0".)
C8_DayOverflow ==
    [][(/\ op' = "updateDate"
        /\ dateFormat = MDY
        /\ Divider1(raw') # 0
        /\ AfterFirst(raw').s.month # Sentinel
        /\ Exceeds(SecondCandidate(raw'),
                   getNoOfDays(AfterFirst(raw').s.month)))
        => /\ day' = day
           /\ elValue' = AfterFirst(raw').s.month \o <<"/">> \o day]_vars

\* the month candidate m is rejected next to the stored day d
MonthRejected(m, d) ==
    Exceeds(m, 12) \/ Gt(Number(d), getNoOfDays(m))

\* C9: in DMY, when a first separator is present and the month candidate is
\* non-empty, it is rejected if its value exceeds 12 or if the stored day
\* exceeds the number of days of the candidate month; on rejection the
\* stored month is unchanged and the display is the day, the separator and
\* the previously accepted month; otherwise the normalized candidate is
\* stored as month.  (Stated for calls whose stored day is not the
\* sentinel "0".)
C9_MonthCrossValidation ==
    [][(/\ op' = "updateDate"
        /\ dateFormat = DMY
        /\ Divider1(raw') # 0
        /\ AfterFirst(raw').s.day # Sentinel
        /\ SecondCandidate(raw') # <<>>)
        => IF MonthRejected(SecondCandidate(raw'), AfterFirst(raw').s.day)
           THEN /\ month' = month
                /\ elValue' = AfterFirst(raw').s.day \o <<"/">> \o month
           ELSE month' = removeLeadingZero(SecondCandidate(raw'))]_vars

\* the number a stored year stands for: 0 when empty, NaN when it is not
\* made of digits
NumericYear(y) == IF y = <<>> THEN 0 ELSE Number(y)

\* C10: finalize sets the committed date exactly when the stored day and
\* month are non-empty and startYear <= numeric(year) <= endYear (an empty
\* year counting as 0); in every other case it clears the display and
\* leaves the committed date as it was.
C10_Finalize ==
    [][op' \in {"clear", "updateDateAndClear"}
        => IF /\ day' # <<>>
              /\ month' # <<>>
              /\ NumericYear(year') # NaN
              /\ InRange(NumericYear(year'))
           THEN date' = day' \o <<"/">> \o month' \o <<"/">> \o year'
           ELSE elValue' = <<>> /\ date' = date]_vars

\* finalize ran in this step (alone, or after the process call of a focus
\* or blur event)
Finalized == op' \in {"clear", "updateDateAndClear"}

T_03_15_2024 == <<"0", "3", "/", "1", "5", "/", "2", "0", "2", "4">>
T_15_03_2024 == <<"1", "5", "/", "0", "3", "/", "2", "0", "2", "4">>

\* C11: whenever finalize commits, the committed date is the stored day,
\* "/", the stored month, "/" and the stored year, in both formats.
C11_CommitOrder ==
    [][(Finalized /\ ~dateNotValid(fields'))
        => date' = day' \o <<"/">> \o month' \o <<"/">> \o year']_vars

\* C11 happens: in MDY, "03/15/2024" was processed and finalize committed
\* "15/03/2024"
C11_Witness ==
    /\ dateFormat = MDY
    /\ op = "clear"
    /\ raw = T_03_15_2024
    /\ elValue = T_03_15_2024
    /\ date = T_15_03_2024

\* finalize called right after process(value): the display and the
\* committed date it leaves
ProcessThenFinalize(value) ==
    LET r == restrictInput(fields, value)
    IN  clearDateIfNotValid(r.s, r.v, date)

\* C12: with startYear >= 1, if process(raw) is called with a raw that
\* contains fewer than two separators and finalize is called immediately
\* after, the display is cleared and nothing is committed by that finalize.
C12_FinalizeClearsIncomplete ==
    startYear >= 1 =>
        /\ \A value \in AllInputs(elValue) :
            SlashCount(value) < 2
            => /\ ProcessThenFinalize(value).v = <<>>
               /\ ProcessThenFinalize(value).date = date
        /\ (op = "updateDateAndClear" /\ SlashCount(raw) < 2)
            => elValue = <<>>

\* C12 happens: a date was committed, then "01/" was processed and the
\* blur handler finalized it: the display is empty, the committed date kept
C12_Witness ==
    /\ op = "updateDateAndClear"
    /\ raw = <<"0", "1", "/">>
    /\ elValue = <<>>
    /\ date # <<>>

EmptyFields == [day |-> <<>>, month |-> <<>>, year |-> <<>>]

\* C13: when finalize determines that the date is incomplete or out of
\* range, the stored day, month and year are reset to empty strings, so a
\* later process call behaves as it does from empty fields.
C13_FinalizeResets ==
    [][/\ (Finalized /\ dateNotValid(fields'))
            => day' = <<>> /\ month' = <<>> /\ year' = <<>>
       /\ (op = "clear" /\ elValue = <<>> /\ op' = "updateDate")
            => elValue' = restrictInput(EmptyFields, raw').v]_vars

\* the characters of the explored texts, and the strings over them
Chars == Digits \cup {"/", "a"}
IsText(t) == t \in Seq(Chars)

T_1a_1_2020 == <<"1", "a", "/", "1", "/", "2", "0", "2", "0">>

C15_DisplayLength ==
    /\ op = "updateDate" => Len(elValue) <= 10
    /\ \A value \in AllInputs(elValue) :
        Len(restrictInput(fields, value).v) <= 10

\* C15 happens: a raw of more than 10 characters was processed and the
\* display has exactly 10
C15_Witness ==
    /\ op = "updateDate"
    /\ Len(raw) > 10
    /\ Len(elValue) = 10

\* further raws that begin with the separator
LeadingSeparatorTexts ==
    { <<"/">>, <<"/", "/">>, <<"/", "1">>, <<"/", "a", "1", "/", "2">>,
      <<"/", "1", "2", "/", "3", "1", "/", "2", "0", "2", "0">> }

T_s1_2020 == <<"/", "1", "/", "2", "0", "2", "0">>

\* C16: for every raw input whose first character is the separator "/",
\* process returns the empty display, whatever the prior state and format.
C16_LeadingSeparator ==
    /\ (op = "updateDate" /\ raw # <<>> /\ raw[1] = "/") => elValue = <<>>
    /\ \A value \in AllInputs(elValue) \cup LeadingSeparatorTexts :
        (value # <<>> /\ value[1] = "/")
        => restrictInput(fields, value).v = <<>>

\* C16 happens: "/1/2020" was processed and the display is empty
C16_Witness ==
    /\ op = "updateDate"
    /\ raw = T_s1_2020
    /\ elValue = <<>>

BeginsWithSeparator(t) == t # <<>> /\ t[1] = "/"

\* C17: for every raw input (raws with characters other than digits and
\* "/" included) and every reachable state, the display returned by
\* process does not begin with "/".
C17_NoLeadingSeparator ==
    op = "updateDate" => ~BeginsWithSeparator(elValue)

\* a text made of decimal digits and separators only
DigitsAndSeparators(t) == \A i \in 1..Len(t) : t[i] \in Digits \cup {"/"}

\* C18: for every raw input and every reachable state, the display
\* returned by process contains only decimal digits and the separator "/".
C18_DisplayCharacters ==
    /\ DigitsAndSeparators(elValue)
    /\ \A value \in AllInputs(elValue) :
        DigitsAndSeparators(restrictInput(fields, value).v)

\* C18 happens: a raw with another character was processed
C18_Witness ==
    /\ op = "updateDate"
    /\ ~DigitsAndSeparators(raw)
    /\ elValue # <<>>
    /\ DigitsAndSeparators(elValue)

\* C19: in every reachable state the stored day, month and year each
\* consist solely of decimal digits (or are empty).
C19_FieldsAreDigits ==
    IsDigits(day) /\ IsDigits(month) /\ IsDigits(year)

\* process(value) ignores everything at or after a third separator
ThirdSeparatorDiscarded(value) ==
    restrictInput(fields, value)
        = restrictInput(fields, removeSlashAfterThirdOccurrence(value))

\* C20: for every raw input and every reachable state, the display
\* returned by process contains at most two separators; everything at or
\* after a third separator of the raw input is discarded.
C20_AtMostTwoSeparators ==
    /\ op = "updateDate" => SlashCount(elValue) <= 2
    /\ \A value \in AllInputs(elValue) :
        ~BeginsWithSeparator(value) => ThirdSeparatorDiscarded(value)

\* process(value) rejects the first field: its candidate exceeds the maximum
FirstRejected(value) ==
    Exceeds(FirstCandidate(value), IF dateFormat = MDY THEN 12 ELSE 31)

\* process(value) rejects the second field: a first separator is present,
\* the first field is not the sentinel, and the candidate is out of bounds
SecondRejected(value) ==
    /\ Divider1(value) # 0
    /\ SecondCandidate(value) # <<>>
    /\ IF dateFormat = MDY
       THEN /\ AfterFirst(value).s.month # Sentinel
            /\ Exceeds(SecondCandidate(value),
                       getNoOfDays(AfterFirst(value).s.month))
       ELSE /\ AfterFirst(value).s.day # Sentinel
            /\ MonthRejected(SecondCandidate(value), AfterFirst(value).s.day)

\* process(value) rejects the year: a leading zero, or four or more digits
\* outside the range
YearRejected(value) ==
    /\ Divider2(value) # 0
    /\ NoSentinel(value)
    /\ YearCandidate(value) # <<>>
    /\ (YearCandidate(value)[1] = "0" \/ YearOutOfRange(value))

\* C21: whenever process rejects one field (first field, second field or
\* year), only that field reverts to its last accepted value and all other
\* text of the sanitized input (the later separators and fields) is kept in
\* the display; in particular the display keeps every separator of the
\* sanitized input.
C21_LocalRecovery ==
    [][(/\ op' = "updateDate"
        /\ (FirstRejected(raw') \/ SecondRejected(raw') \/ YearRejected(raw')))
        => SlashCount(elValue') = SlashCount(Sanitized(raw'))]_vars

\* the display and the fields after the text t was typed one character at
\* a time from the initial state, each keystroke appending to the display
RECURSIVE TypedFromInitial(_)
TypedFromInitial(t) ==
    IF t = <<>> THEN [v |-> <<>>, s |-> EmptyFields]
    ELSE CHOOSE r \in {restrictInput(p.s, p.v \o <<t[Len(t)]>>) :
                            p \in {TypedFromInitial(WithoutLast(t))}} : TRUE

\* the state is the one typing the text raw from the initial state gives
TypedSoFar ==
    /\ op = "updateDate"
    /\ raw # <<>>
    /\ TypedFromInitial(raw) = [v |-> elValue, s |-> fields]

\* finalize after the text t was typed commits day d, month m and year y
CommitsAfterTyping(t, d, m, y) ==
    LET p == TypedFromInitial(t)
    IN  /\ ~dateNotValid(p.s)
        /\ Number(p.s.day) = d
        /\ Number(p.s.month) = m
        /\ Number(p.s.year) = y

\* zero-padded texts of real calendar dates with the year in every explored
\* range, in the session's format, as <<text, day, month, year>>
ZeroPaddedDates ==
    IF dateFormat = MDY
    THEN { <<T_02_29_2020, 29, 2, 2020>>,
           <<T_03_15_2024, 15, 3, 2024>>,
           <<(<<"0", "1", "/", "3", "1", "/", "2", "0", "2", "4">>), 31, 1, 2024>> }
    ELSE { <<(<<"2", "9", "/", "0", "2", "/", "2", "0", "2", "0">>), 29, 2, 2020>>,
           <<T_15_03_2024, 15, 3, 2024>>,
           <<(<<"3", "1", "/", "0", "1", "/", "2", "0", "2", "4">>), 31, 1, 2024>> }

\* C22: for each format and every real calendar date with the year in
\* range, typing its zero-padded 10-character text one character at a time
\* from the initial state gives, after every keystroke, a display equal to
\* the prefix typed so far, and a finalize after the last keystroke commits
\* that date.
C22_ZeroPaddedTyping ==
    /\ (raw \in Prefixes({d[1] : d \in ZeroPaddedDates}) /\ TypedSoFar)
        => elValue = raw
    /\ \A d \in ZeroPaddedDates :
        TypedFromInitial(d[1]).v = d[1]
        => CommitsAfterTyping(d[1], d[2], d[3], d[4])

\* C23: in the error-message variant with isShowError true, every error
\* element that showErrorMessage appends to the page is eventually removed,
\* by a timeout or by the next update, for every sequence of input events
\* and timer firings, updates that report more than one error included.
\* (an element that is on the page leads to its being off the page exactly
\* when it is off the page infinitely often)
C23_ErrorsEventuallyRemoved ==
    \A d \in 1..MaxDivs : []<>(d \notin page)

-----------------------------------------------------------------------------
\* C24: sanitization is transparent: in every reachable state and for every
\* raw input, processing the raw text gives the same display and the same
\* stored day, month and year as processing the raw text with every character
\* that is neither a digit nor "/" removed.
C24_SanitizationTransparent ==
    \A value \in AllInputs(elValue) :
        restrictInput(fields, value) = restrictInput(fields, Sanitize(value))

\* the days of month m of year y in the calendar
DaysIn(m, y) ==
    IF m = 2 THEN (IF IsLeap(y) THEN 29 ELSE 28)
    ELSE IF m \in {4, 6, 9, 11} THEN 30 ELSE 31

\* the fields s denote a real calendar date of a year in range
RealDate(s) ==
    /\ s.day # <<>> /\ s.month # <<>> /\ s.year # <<>>
    /\ IsDigits(s.day) /\ IsDigits(s.month) /\ IsDigits(s.year)
    /\ InRange(DecVal(s.year))
    /\ DecVal(s.month) \in 1..12
    /\ DecVal(s.day) \in 1..DaysIn(DecVal(s.month), DecVal(s.year))

\* C25: whenever finalize commits, the committed day/month/year is a real
\* calendar date: month in 1..12, day between 1 and the number of days of
\* that month in that year, year in [startYear, endYear], whatever process
\* calls came before.
C25_CommittedIsRealDate ==
    [][(Finalized /\ ~dateNotValid(fields')) => RealDate(fields')]_vars

\* C26: the sentinel "0" is never committed: after any sequence of process
\* calls, finalize never commits a date whose day or month is "0"; a year
\* accepted earlier does not survive next to a day or month that became "0".
C26_SentinelNotCommitted ==
    [][(Finalized /\ ~dateNotValid(fields'))
        => day' # Sentinel /\ month' # Sentinel]_vars

\* the display and the fields that the first two steps of process(value)
\* hand to the year step
BeforeYearStep(value) ==
    rearrangeBasedOnDateFormat(fields, Sanitize(checkSlashPosition(value)),
                               findSlashPosition(value, 1),
                               findSlashPosition(value, 2))

\* value has a second separator and the year step finds day or month "0"
SentinelAtYearStep(value) ==
    /\ findSlashPosition(value, 2) # 0
    /\ \/ BeforeYearStep(value).s.day = Sentinel
       \/ BeforeYearStep(value).s.month = Sentinel

T_1_0_2020 == <<"1", "/", "0", "/", "2", "0", "2", "0">>

\* C30 as stated: when a second separator is present and the stored day or
\* month is "0", process leaves the stored year unchanged and the display
\* is the text through the second separator followed by the stored year.
C30_SentinelRevertsToYear ==
    \A value \in AllInputs(elValue) :
        SentinelAtYearStep(value)
        => /\ restrictInput(fields, value).s.year = year
           /\ restrictInput(fields, value).v =
                Slice(Slice(BeforeYearStep(value).v, 0,
                            findSlashPosition(value, 2) + 1) \o year, 0, 10)

\* C30: when a second separator is present and the stored day or month is
\* "0", process leaves the stored year unchanged and the display is the
\* text of the first two steps cut before the index of the second
\* separator: the separator and the year are dropped.
C30_SentinelDropsYear ==
    \A value \in AllInputs(elValue) :
        SentinelAtYearStep(value)
        => /\ restrictInput(fields, value).s.year = year
           /\ restrictInput(fields, value).v =
                Slice(Slice(BeforeYearStep(value).v, 0,
                            findSlashPosition(value, 2)), 0, 10)

\* C30 happens: with the year "2019" stored, "1/0/2020" was processed in
\* MDY: the day is "0", the display is "1/0" and the year is still "2019"
C30_Witness ==
    /\ dateFormat = MDY
    /\ op = "updateDate"
    /\ raw = T_1_0_2020
    /\ day = Sentinel
    /\ year = <<"2", "0", "1", "9">>
    /\ elValue = <<"1", "/", "0">>

\* the index (from 1) of the n-th separator of the text v, which has one
SepIndex(v, n) ==
    CHOOSE i \in 1..Len(v) : v[i] = "/" /\ SlashCount(SubSeq(v, 1, i)) = n

\* the fields a text shows: before its first separator, between the first
\* and the second (or the end), after the second
ShownBeforeFirst(v) == SubSeq(v, 1, SepIndex(v, 1) - 1)
ShownSecond(v) ==
    IF SlashCount(v) >= 2
    THEN SubSeq(v, SepIndex(v, 1) + 1, SepIndex(v, 2) - 1)
    ELSE SubSeq(v, SepIndex(v, 1) + 1, Len(v))
ShownYear(v) == SubSeq(v, SepIndex(v, 2) + 1, Len(v))

StoredFirst == IF dateFormat = MDY THEN month ELSE day
StoredSecond == IF dateFormat = MDY THEN day ELSE month

\* C27: after every process call the fields shown in the display equal the
\* stored fields: with a first separator in the display, the text before it
\* is the stored first field and the text after it (up to the second
\* separator) is the stored second field; with a second separator, the text
\* after it is the stored year.
C27_DisplayAgreesWithState ==
    op = "updateDate" =>
        /\ SlashCount(elValue) >= 1
            => /\ ShownBeforeFirst(elValue) = StoredFirst
               /\ ShownSecond(elValue) = StoredSecond
        /\ SlashCount(elValue) >= 2 => ShownYear(elValue) = year

\* the decimal text of a natural number, and its text padded to two digits
DigitChar(n) == CHOOSE c \in Digits : DigitVal(c) = n
RECURSIVE Decimal(_)
Decimal(n) ==
    IF n < 10 THEN <<DigitChar(n)>>
    ELSE Decimal(n \div 10) \o <<DigitChar(n % 10)>>
Padded(n) == IF n < 10 THEN <<"0">> \o Decimal(n) ELSE Decimal(n)

\* the texts of a day or a month: without and with a leading zero
FieldTexts(n) == {Decimal(n), Padded(n)}

\* real calendar dates <<day, month, year>> with a year inside both year
\* ranges: first and last days of short and long months, of a leap year
\* and of a common year
RealDates ==
    {t \in {1, 9, 10, 28, 29, 30, 31} \X {1, 2, 4, 9, 10, 12} \X {2020, 2023} :
        t[1] <= DaysIn(t[2], t[3])}

\* the text of a date in the format of the session
DateText(d, m, y) ==
    IF dateFormat = MDY THEN m \o <<"/">> \o d \o <<"/">> \o y
    ELSE d \o <<"/">> \o m \o <<"/">> \o y

\* C28: from every reachable state, process applied to the text of a real
\* calendar date in the format of the session (fields of one or two digits,
\* year in range) returns the text unchanged and stores exactly its day,
\* month and year, whatever was stored before.
C28_RecoveryFromAnyState ==
    \A t \in RealDates : \A d \in FieldTexts(t[1]) : \A m \in FieldTexts(t[2]) :
        restrictInput(fields, DateText(d, m, Decimal(t[3])))
            = [v |-> DateText(d, m, Decimal(t[3])),
               s |-> [day |-> d, month |-> m, year |-> Decimal(t[3])]]

\* C28 happens: the text of 29 February 2020 was processed and is displayed
\* unchanged, with its day, month and year stored
C28_Witness ==
    /\ op = "updateDate"
    /\ raw = DateText(Decimal(29), Padded(2), Decimal(2020))
    /\ elValue = raw
    /\ day = Decimal(29)
    /\ month = Padded(2)
    /\ year = Decimal(2020)

\* every real calendar date <<day, month, year>> of four years inside both
\* year ranges
AllRealDates ==
    {t \in (1..31) \X (1..12) \X {2000, 2020, 2023, 2030} :
        t[1] <= DaysIn(t[2], t[3])}

\* the text of the date t without leading zeros, in the session's format
Unpadded(t) == DateText(Decimal(t[1]), Decimal(t[2]), Decimal(t[3]))

\* every keystroke of typing t from the initial state displays the prefix
\* typed so far
TypedAsDisplayed(t) ==
    \A k \in 1..Len(t) : TypedFromInitial(SubSeq(t, 1, k)).v = SubSeq(t, 1, k)

\* the dates whose unpadded texts the sessions type character by character
UnpaddedTargets == {<<29, 2, 2020>>, <<31, 12, 2020>>}

\* C29: for each format and every real calendar date with the year in
\* range, typing its text without leading zeros one character at a time
\* from the initial state gives, after every keystroke, a display equal to
\* the prefix typed so far, and a finalize after the last keystroke commits
\* that date.
C29_UnpaddedTyping ==
    /\ op = "init" =>
        \A t \in AllRealDates :
            /\ TypedAsDisplayed(Unpadded(t))
            /\ clearDateIfNotValid(TypedFromInitial(Unpadded(t)).s,
                                   Unpadded(t), <<>>)
                 = [v |-> Unpadded(t),
                    date |-> Decimal(t[1]) \o <<"/">> \o Decimal(t[2])
                                \o <<"/">> \o Decimal(t[3])]
    /\ (raw \in Prefixes({Unpadded(t) : t \in UnpaddedTargets}) /\ TypedSoFar)
        => elValue = raw

\* C29 happens: the unpadded text of 29 February 2020 or of 31 December
\* 2020 was typed character by character from the initial state and is
\* displayed whole, with its fields stored
C29_Witness ==
    /\ \E t \in UnpaddedTargets :
        /\ raw = Unpadded(t)
        /\ day = Decimal(t[1]) /\ month = Decimal(t[2]) /\ year = Decimal(t[3])
    /\ TypedSoFar
    /\ elValue = raw

-----------------------------------------------------------------------------
\* the first and the second field of the format in the fields s
FirstOf(s) == IF dateFormat = MDY THEN s.month ELSE s.day
SecondOf(s) == IF dateFormat = MDY THEN s.day ELSE s.month

\* C31: when the first field stored by a process call is "0" and the raw
\* input contains a first separator, the call returns only the text before
\* that separator (no separator is left in the display) and leaves the
\* second field as it was; hence no display ever begins with "0/".
C31_SecondFieldShortCircuit ==
    /\ \A value \in AllInputs(elValue) :
        (/\ FirstOf(restrictInput(fields, value).s) = Sentinel
         /\ SlashCount(value) >= 1 /\ value[1] # "/")
        => /\ SlashCount(restrictInput(fields, value).v) = 0
           /\ SecondOf(restrictInput(fields, value).s) = StoredSecond
    /\ op = "updateDate" => Slice(elValue, 0, 2) # <<"0", "/">>

\* the text t begins with a zero, with two zeros
LeadingZero(t) == t # <<>> /\ t[1] = "0"
TwoLeadingZeros(t) == Len(t) >= 2 /\ t[1] = "0" /\ t[2] = "0"

ZeroTexts ==
    UNION {[1..n -> {"0", "1", "3"}] : n \in 0..4}
        \cup {t \in {FirstCandidate(raw)} : IsDigits(t)}

MonthTexts ==
    {<<>>, month} \cup UNION {FieldTexts(n) : n \in 0..13}

\* the days the lookup gives for the numeric value n of its argument
ListedDays(n) ==
    IF n \in {1, 3, 5, 7, 8, 10, 12} THEN 31
    ELSE IF n \in {4, 6, 9, 11} THEN 30
    ELSE 29

\* C34 as stated: months 1, 3, 5, 7, 8, 10, 12 give 31; months 4, 6, 9, 11
\* give 30; every other argument, February and the unset (empty) month
\* included, gives 29.
C34_UnsetMonthGives29 ==
    \A t \in MonthTexts : getNoOfDays(t) = ListedDays(Number(t))

\* C34: months 1, 3, 5, 7, 8, 10, 12 give 31; months 4, 6, 9, 11 give 30;
\* the unset (empty) month gives 31; every other argument, February, "0"
\* and 13 included, gives 29.
C34_DaysInMonthLookup ==
    \A t \in MonthTexts :
        getNoOfDays(t) = IF t = <<>> THEN 31 ELSE ListedDays(Number(t))

\* C34 happens: in MDY the day 29 was accepted for the stored month "02",
\* whose lookup gives 29
C34_Witness ==
    /\ dateFormat = MDY
    /\ op = "updateDate"
    /\ month = Padded(2)
    /\ day = Decimal(29)
    /\ raw = <<"0", "2", "/", "2", "9">>
    /\ getNoOfDays(month) = 29

\* C35: after every process(raw), if raw has no first separator the second
\* field of the format (day in MDY, month in DMY) is stored as "", and if
\* raw has no second separator the stored year is "".
C35_ClearUnsetFields ==
    /\ \A value \in AllInputs(elValue) :
        /\ SlashCount(value) = 0
            => SecondOf(restrictInput(fields, value).s) = <<>>
        /\ SlashCount(value) < 2
            => restrictInput(fields, value).s.year = <<>>
    /\ op \in {"updateDate", "updateDateAndClear"}
        => /\ SlashCount(raw) = 0 => StoredSecond = <<>>
           /\ SlashCount(raw) < 2 => year = <<>>

\* C35 happens: after a date was committed, a text without separator was
\* processed: the first field is stored, the second field and the year
\* are empty
C35_Witness ==
    /\ date # <<>>
    /\ op = "updateDate"
    /\ raw # <<>>
    /\ SlashCount(raw) = 0
    /\ StoredFirst # <<>>
    /\ StoredSecond = <<>>
    /\ year = <<>>

\* C36: a raw input that starts with the separator is treated as empty:
\* from every reachable state, process(raw) with raw beginning with "/"
\* leaves the same stored day, month and year as process("") does from
\* that state, all three empty.
C36_LeadingSeparatorIsEmpty ==
    \A value \in AllInputs(elValue) :
        BeginsWithSeparator(value)
        => /\ restrictInput(fields, value).s = restrictInput(fields, <<>>).s
           /\ restrictInput(fields, value).s = EmptyFields

-----------------------------------------------------------------------------
(* The base directive and the error-message variant side by side: every    *)
(* input event is handed to both.                                          *)

\* the raw inputs made of digits and separators
BothInputs(v) == {value \in AllInputs(v) : DigitsAndSeparators(value)}

\* the display and the fields of a result r of the variant's restrictInput
DisplayAndFields(r) == [v |-> r.v, s |-> r.s]

\* updateDate(value) of both directives
updateDateBoth(value) ==
    LET r == restrictInput(fields, value)
    IN  /\ day' = r.s.day
        /\ month' = r.s.month
        /\ year' = r.s.year
        /\ elValue' = r.v
        /\ raw' = value
        /\ op' = "updateDate"
        /\ variant' = DisplayAndFields(restrictInput_E(variant.s, value))
        /\ UNCHANGED <<dateFormat, startYear, endYear, date, timer, errVars>>

\* @HostListener('input') of both directives
OnInputBoth == \E value \in BothInputs(elValue) : updateDateBoth(value)

NextBoth == OnInputBoth

SpecBoth == Init /\ [][NextBoth]_vars

\* C37: the error-message variant and the base directive are the same
\* parser: run side by side from their initial states on any sequence of
\* raw inputs made of digits and separators, with the same format and year
\* range, they return the same display after every call and hold the same
\* day, month and year.
C37_SameParser ==
    op = "updateDate" => variant = [v |-> elValue, s |-> fields]
====
